---- MODULE Spec2Model ----
(***************************************************************************)
(* Ticket lifecycle and verification engine of the internal inventory      *)
(* tracker: the rows of the tickets table, the TicketModel statements that *)
(* write them and the TicketsHandler request handlers that guard them.     *)
(* One action is one HTTP request served from start to finish.  The rows   *)
(* are independent of each other (every statement carries WHERE id = $n),  *)
(* so the lifecycle is followed on the ticket ids of TicketIds.            *)
(***************************************************************************)
EXTENDS Integers, Sequences, FiniteSets, TLC

(* ------------------------------ bounds --------------------------------- *)
\* Ids the tickets sequence hands out while createTicket requests race.
MaxTickets == 3
\* Last instant of the database clock.
MaxClock == 2
\* Users 1..NumUsers exist in the users table.
NumUsers == 2

(* --------------------------- program constants ------------------------- *)
\* SQL NULL / Go nil pointer.  Ids and timestamps start at 1.
Null == 0
AdminRole == 1
ITRole == 2
MinCompletion == 0
MaxCompletion == 100
PendingCompletion == 90
RejectedCompletion == 50
ClosedCompletion == 100

StatusOK == 200
StatusCreated == 201
StatusBadRequest == 400
StatusForbidden == 403
StatusNotFound == 404
StatusInternalServerError == 500

ResetMarker == "Verification reset by user"
DefaultVerificationStatus == "not_required"
DefaultVerificationNotes == ""

RoleIds == 1..5
Users == 1..NumUsers
\* A user id that is in no row of the users table.
GhostUser == NumUsers + 1
TicketIds == {1}

validStatuses == {"open", "received", "in_progress", "resolved", "closed"}

\* role_permissions as seeded, restricted to the tickets resource.
RolePermissions(roleID) ==
    CASE roleID = 1 -> {"tickets:create", "tickets:read", "tickets:update",
                        "tickets:delete", "tickets:assign"}
      [] roleID = 2 -> {"tickets:create", "tickets:read", "tickets:update",
                        "tickets:assign"}
      [] roleID = 3 -> {"tickets:read", "tickets:update"}
      [] roleID = 4 -> {"tickets:read"}
      [] roleID = 5 -> {"tickets:read"}
      [] OTHER -> {}

\* AuthorizationMiddleware.RequirePermission: the role holds the permission.
RequirePermission(roleID, permission) == permission \in RolePermissions(roleID)

(* ------------------------- request inputs ------------------------------ *)
StatusInputs == validStatuses \cup {"Investigating"}
CompletionInputs == {-1, 40, 100, 101}
AssigneeInputs == {Null} \cup Users \cup {GhostUser}
NotesInputs == {"done"}
TitleInputs == {"", "printer"}
\* Request bodies of POST /tickets: the title, and lifecycle fields a client
\* may send along although the handler's input struct has no such members.
CreateBodies ==
    [title : TitleInputs,
     status : {"open", "closed"},
     completion : {0, 100},
     assigned_to : {Null, 1},
     created_by : {Null, 2},
     verification_status : {"not_required", "verified"}]
\* Query strings of GET /tickets: "" and Null stand for an absent parameter.
\* time.Now().Unix() % 10000 at the moment of a collision.
TimestampInputs == {1, 3}
ListQueries ==
    [status : {"", "open"},
     assigned_to : {Null} \cup Users,
     created_by : {Null} \cup Users]
VerificationStatusInputs == {"not_required", "pending", "verified", "rejected", "bogus"}

\* call is the lifecycle request caught between its read and its write, and
\* creating[p] the createTicket request connection p is in the middle of;
\* both are idle whenever requests are served one after the other.
VARIABLES tickets, nextId, now, call, creating

vars == <<tickets, nextId, now, call, creating>>

Idle == [op |-> "idle"]
\* Connections that serve createTicket requests side by side.
Procs == {1, 2}
NoneCreating == [p \in Procs |-> Idle]

NoTickets == [i \in {} |-> Null]

\* What a handler answers: the HTTP status code and the table it leaves.
Respond(code, table) == [code |-> code, tickets |-> table]

Exists(id) == id \in DOMAIN tickets

(* ------------------- TicketModel: SQL statements ----------------------- *)
\* GenerateTicketNum: MAX(sequence) + 1, or 1 when there is no ticket.
RECURSIVE MaxNum(_)
MaxNum(S) ==
    IF S = {} THEN 0
    ELSE LET x == CHOOSE y \in S : TRUE
             m == MaxNum(S \ {x})
         IN IF x > m THEN x ELSE m

GenerateTicketNum ==
    LET nums == {tickets[i].ticket_num : i \in DOMAIN tickets}
    IN IF nums = {} THEN 1 ELSE MaxNum(nums) + 1

\* Mutant: the new ticket is assigned to its creator.
Insert_AssignCreator(title, createdBy) ==
    [ticket_num |-> GenerateTicketNum,
     title |-> title,
     status |-> "open",
     completion |-> 0,
     created_by |-> createdBy,
     assigned_to |-> createdBy,
     verification_status |-> DefaultVerificationStatus,
     verification_notes |-> DefaultVerificationNotes,
     verified_by |-> Null,
     verified_at |-> Null,
     closed_at |-> Null]

\* Insert: the row as stored, columns the statement omits take their defaults.
Insert(title, createdBy) ==
    [ticket_num |-> GenerateTicketNum,
     title |-> title,
     status |-> "open",
     completion |-> 0,
     created_by |-> createdBy,
     assigned_to |-> Null,
     verification_status |-> DefaultVerificationStatus,
     verification_notes |-> DefaultVerificationNotes,
     verified_by |-> Null,
     verified_at |-> Null,
     closed_at |-> Null]

\* Mutant: ticket_num carries no UNIQUE constraint.
InsertRow_NoUnique(id, row) == (id :> row) @@ tickets

\* The INSERT against ticket_num TEXT NOT NULL UNIQUE: a number some row
\* already holds is a constraint violation and no row is stored.
InsertRow(id, row) ==
    IF \E i \in DOMAIN tickets : tickets[i].ticket_num = row.ticket_num
    THEN tickets
    ELSE (id :> row) @@ tickets

\* Mutant: the CASE never stamps closed_at.
ClosedAtCase_Keep(t, status, at) == t.closed_at

\* closed_at = CASE WHEN $status = 'closed' AND closed_at IS NULL THEN NOW() ELSE closed_at END
ClosedAtCase(t, status, at) ==
    IF status = "closed" /\ t.closed_at = Null THEN at ELSE t.closed_at

\* Update: whole-row write of the ticket the handler read and edited.
Update(t, edited, at) ==
    [t EXCEPT !.title = edited.title,
              !.status = edited.status,
              !.completion = edited.completion,
              !.assigned_to = edited.assigned_to,
              !.closed_at = ClosedAtCase(t, edited.status, at)]

\* Mutant: a request without assignee keeps the assignee (COALESCE).
UpdateStatus_KeepAssignee(t, status, completion, assignedTo, at) ==
    [t EXCEPT !.status = status,
              !.completion = completion,
              !.assigned_to = IF assignedTo = Null THEN t.assigned_to ELSE assignedTo,
              !.closed_at = ClosedAtCase(t, status, at)]

UpdateStatus(t, status, completion, assignedTo, at) ==
    [t EXCEPT !.status = status,
              !.completion = completion,
              !.assigned_to = assignedTo,
              !.closed_at = ClosedAtCase(t, status, at)]

ReassignTicket(t, newAssigneeID) ==
    [t EXCEPT !.assigned_to = newAssigneeID]

\* Mutant: the statement leaves status as it was.
RequestVerification_KeepStatus(t, notes) ==
    [t EXCEPT !.verification_status = "pending",
              !.verification_notes = notes,
              !.completion = PendingCompletion]

RequestVerification(t, notes) ==
    [t EXCEPT !.verification_status = "pending",
              !.verification_notes = notes,
              !.status = "resolved",
              !.completion = PendingCompletion]

\* Mutant: an approval leaves completion as it was.
VerifyTicket_KeepCompletionApproved(t, userID, approved, notes, at) ==
    [t EXCEPT !.verification_status = IF approved THEN "verified" ELSE "rejected",
              !.verification_notes = notes,
              !.verified_by = userID,
              !.verified_at = at,
              !.status = IF approved THEN "closed" ELSE "in_progress",
              !.completion = IF approved THEN t.completion ELSE RejectedCompletion,
              !.closed_at = IF approved THEN at ELSE t.closed_at]

\* Mutant: a rejection leaves completion as it was.
VerifyTicket_KeepCompletion(t, userID, approved, notes, at) ==
    [t EXCEPT !.verification_status = IF approved THEN "verified" ELSE "rejected",
              !.verification_notes = notes,
              !.verified_by = userID,
              !.verified_at = at,
              !.status = IF approved THEN "closed" ELSE "in_progress",
              !.completion = IF approved THEN ClosedCompletion ELSE t.completion,
              !.closed_at = IF approved THEN at ELSE t.closed_at]

VerifyTicket(t, userID, approved, notes, at) ==
    [t EXCEPT !.verification_status = IF approved THEN "verified" ELSE "rejected",
              !.verification_notes = notes,
              !.verified_by = userID,
              !.verified_at = at,
              !.status = IF approved THEN "closed" ELSE "in_progress",
              !.completion = IF approved THEN ClosedCompletion ELSE RejectedCompletion,
              !.closed_at = IF approved THEN at ELSE t.closed_at]

\* Mutant: the statement leaves completion as it was.
SkipVerification_KeepCompletion(t, at) ==
    [t EXCEPT !.verification_status = "not_required",
              !.status = "closed",
              !.closed_at = at]

SkipVerification(t, at) ==
    [t EXCEPT !.verification_status = "not_required",
              !.status = "closed",
              !.completion = ClosedCompletion,
              !.closed_at = at]

\* Mutant: the statement records the creator as verifier.
SetupVerification_StampVerifier(t, status, notes) ==
    [t EXCEPT !.verification_status = status,
              !.verification_notes = notes,
              !.verified_by = t.created_by]

SetupVerification(t, status, notes) ==
    [t EXCEPT !.verification_status = status,
              !.verification_notes = notes]

\* Mutant: the statement leaves the verifier in place.
ResetVerification_KeepVerifier(t) ==
    [t EXCEPT !.verification_status = "pending",
              !.verification_notes = ResetMarker]

ResetVerification(t) ==
    [t EXCEPT !.verification_status = "pending",
              !.verification_notes = ResetMarker,
              !.verified_by = Null,
              !.verified_at = Null]

\* GetAll: the ids of the rows that pass every filter that is set.
GetAll(filters) ==
    {id \in DOMAIN tickets :
        /\ filters.Status # "" => tickets[id].status = filters.Status
        /\ filters.AssignedTo # Null => tickets[id].assigned_to = filters.AssignedTo
        /\ filters.CreatedBy # Null => tickets[id].created_by = filters.CreatedBy
        /\ filters.AgentView # Null => tickets[id].created_by = filters.AgentView}

(* --------------------- handler authorization --------------------------- *)
\* UpdateTicket: switch roleID { 1: any; 2: unassigned or own; default: creator }
CanUpdateTicket(t, userID, roleID) ==
    CASE roleID = AdminRole -> TRUE
      [] roleID = ITRole -> ~(t.assigned_to # Null /\ t.assigned_to # userID)
      [] OTHER -> ~(t.created_by = Null \/ t.created_by # userID)

\* RequestVerification: creator, or Admin / IT staff.
CanRequest(t, userID, roleID) ==
    \/ (t.created_by # Null /\ t.created_by = userID)
    \/ roleID = AdminRole \/ roleID = ITRole

\* Mutant: the assignee may decide as well.
CanVerifyTicket_Assignee(t, userID, roleID) ==
    \/ roleID = AdminRole \/ roleID = ITRole
    \/ (t.created_by # Null /\ t.created_by = userID)
    \/ (t.assigned_to # Null /\ t.assigned_to = userID)

\* TicketModel.CanVerifyTicket
CanVerifyTicket(t, userID, roleID) ==
    \/ roleID = AdminRole \/ roleID = ITRole
    \/ (t.created_by # Null /\ t.created_by = userID)

\* Mutant: the staff role may skip as well.
CanSkip_Staff(roleID) == ~(roleID # AdminRole /\ roleID # ITRole /\ roleID # 3)

\* SkipVerification: only Admin / IT.
CanSkip(roleID) == ~(roleID # AdminRole /\ roleID # ITRole)

\* Mutant: the verifier branch is missing.
CanReset_NoVerifier(t, userID, roleID) ==
    \/ roleID = AdminRole \/ roleID = ITRole
    \/ (t.created_by # Null /\ t.created_by = userID)

\* ResetVerification: Admin / IT, the creator, or the recorded verifier.
CanReset(t, userID, roleID) ==
    \/ roleID = AdminRole \/ roleID = ITRole
    \/ (t.created_by # Null /\ t.created_by = userID)
    \/ (t.verified_by # Null /\ t.verified_by = userID)

\* Mutant: only a closed ticket is turned away.
VerifiableStatus_NotClosed(t) == t.status # "closed"

\* "Ticket must be resolved or in progress"
VerifiableStatus(t) == ~(t.status # "resolved" /\ t.status # "in_progress")

\* Mutant: a rejected ticket may be decided again.
VerificationPending_OrRejected(t) == t.verification_status \in {"pending", "rejected"}

\* "Ticket is not pending verification" is answered unless this holds.
VerificationPending(t) == t.verification_status = "pending"

\* Mutant: a rejected verification may be set up again.
VerificationNotSetUp_OrRejected(t) ==
    t.verification_status \in {"not_required", "rejected"}

\* "Verification is already set up" is answered unless this holds.
VerificationNotSetUp(t) == t.verification_status = "not_required"

\* Mutant: the closed check is missing.
ResetBlocked_Never(t) == FALSE

\* "Cannot reset verification for closed tickets"
ResetBlocked(t) == t.status = "closed"

(* --------------------------- TicketsHandler ---------------------------- *)
\* Each handler is the whole request: route middleware, GetByID, the checks
\* in the order of the code, the TicketModel statement, the response code.

\* POST /api/v1/tickets
CreateTicket(userID, roleID, title) ==
    IF ~RequirePermission(roleID, "tickets:create") THEN Respond(StatusForbidden, tickets)
    ELSE IF title = "" THEN Respond(StatusBadRequest, tickets)
    ELSE Respond(StatusCreated, (nextId :> Insert(title, userID)) @@ tickets)

\* json.Decode into the input struct of CreateTicket: members the struct does
\* not declare are dropped.
DecodeCreateInput(body) == [title |-> body.title]

\* POST /api/v1/tickets with its body.
ServeCreateTicket(userID, roleID, body) ==
    CreateTicket(userID, roleID, DecodeCreateInput(body).title)

\* The filters ListTickets builds: the role switch first, then the
\* assigned_to and created_by parameters of the query, which overwrite it.
ListFilters(userID, roleID, q) ==
    LET byRole ==
            [Status |-> q.status,
             AssignedTo |-> IF roleID = ITRole /\ q.assigned_to = Null THEN userID ELSE Null,
             CreatedBy |-> IF roleID = 3 THEN userID ELSE Null,
             AgentView |-> IF roleID \in {4, 5} THEN userID ELSE Null]
        withAssignee ==
            IF q.assigned_to # Null THEN [byRole EXCEPT !.AssignedTo = q.assigned_to]
            ELSE byRole
    IN IF q.created_by # Null THEN [withAssignee EXCEPT !.CreatedBy = q.created_by]
       ELSE withAssignee

\* GET /api/v1/tickets: the answer and the ids of the tickets it lists.
ListTickets(userID, roleID, q) ==
    IF ~RequirePermission(roleID, "tickets:read")
    THEN [code |-> StatusForbidden, list |-> {}]
    ELSE [code |-> StatusOK, list |-> GetAll(ListFilters(userID, roleID, q))]

\* PUT /api/v1/tickets/{id}
UpdateTicket(id, userID, roleID, title) ==
    IF ~RequirePermission(roleID, "tickets:update") THEN Respond(StatusForbidden, tickets)
    ELSE IF ~Exists(id) THEN Respond(StatusNotFound, tickets)
    ELSE IF ~CanUpdateTicket(tickets[id], userID, roleID) THEN Respond(StatusForbidden, tickets)
    ELSE LET existingTicket == tickets[id]
             edited == IF title # "" THEN [existingTicket EXCEPT !.title = title]
                       ELSE existingTicket
         IN Respond(StatusOK, [tickets EXCEPT ![id] = Update(tickets[id], edited, now)])

\* DELETE /api/v1/tickets/{id}
DeleteTicket(id, userID, roleID) ==
    IF ~Exists(id) THEN Respond(StatusNotFound, tickets)
    ELSE IF roleID # AdminRole THEN Respond(StatusForbidden, tickets)
    ELSE Respond(StatusOK, [i \in DOMAIN tickets \ {id} |-> tickets[i]])

\* Mutant: the completion check is missing.
UpdateTicketStatus_NoCompletionCheck(id, userID, roleID, status, completion, assignedTo) ==
    IF ~RequirePermission(roleID, "tickets:update") THEN Respond(StatusForbidden, tickets)
    ELSE IF ~Exists(id) THEN Respond(StatusNotFound, tickets)
    ELSE IF status \notin validStatuses THEN Respond(StatusBadRequest, tickets)
    ELSE IF assignedTo # Null /\ assignedTo \notin Users THEN Respond(StatusBadRequest, tickets)
    ELSE Respond(StatusOK, [tickets EXCEPT ![id] =
                    UpdateStatus(tickets[id], status, completion, assignedTo, now)])

\* POST /api/v1/tickets/{id}/status
UpdateTicketStatus(id, userID, roleID, status, completion, assignedTo) ==
    IF ~RequirePermission(roleID, "tickets:update") THEN Respond(StatusForbidden, tickets)
    ELSE IF ~Exists(id) THEN Respond(StatusNotFound, tickets)
    ELSE IF status \notin validStatuses THEN Respond(StatusBadRequest, tickets)
    ELSE IF completion < MinCompletion \/ completion > MaxCompletion
         THEN Respond(StatusBadRequest, tickets)
    ELSE IF assignedTo # Null /\ assignedTo \notin Users THEN Respond(StatusBadRequest, tickets)
    ELSE Respond(StatusOK, [tickets EXCEPT ![id] =
                    UpdateStatus(tickets[id], status, completion, assignedTo, now)])

\* POST /api/v1/tickets/{id}/reassign
ReassignTicketHandler(id, userID, roleID, assignedTo) ==
    IF ~RequirePermission(roleID, "tickets:assign") THEN Respond(StatusForbidden, tickets)
    ELSE IF assignedTo \notin Users THEN Respond(StatusBadRequest, tickets)
    ELSE IF ~Exists(id) THEN Respond(StatusNotFound, tickets)
    ELSE Respond(StatusOK, [tickets EXCEPT ![id] = ReassignTicket(tickets[id], assignedTo)])

\* POST /api/v1/tickets/{id}/request-verification
RequestVerificationHandler(id, userID, roleID, notes) ==
    IF ~Exists(id) THEN Respond(StatusNotFound, tickets)
    ELSE IF ~CanRequest(tickets[id], userID, roleID) THEN Respond(StatusForbidden, tickets)
    ELSE IF ~VerifiableStatus(tickets[id]) THEN Respond(StatusBadRequest, tickets)
    ELSE Respond(StatusOK, [tickets EXCEPT ![id] = RequestVerification(tickets[id], notes)])

\* POST /api/v1/tickets/{id}/verify
VerifyTicketHandler(id, userID, roleID, approved, notes) ==
    IF ~Exists(id) THEN Respond(StatusInternalServerError, tickets)
    ELSE IF ~CanVerifyTicket(tickets[id], userID, roleID) THEN Respond(StatusForbidden, tickets)
    ELSE IF ~VerificationPending(tickets[id]) THEN Respond(StatusBadRequest, tickets)
    ELSE Respond(StatusOK, [tickets EXCEPT ![id] =
                    VerifyTicket(tickets[id], userID, approved, notes, now)])

\* POST /api/v1/tickets/{id}/skip-verification
SkipVerificationHandler(id, userID, roleID) ==
    IF ~Exists(id) THEN Respond(StatusNotFound, tickets)
    ELSE IF ~CanSkip(roleID) THEN Respond(StatusForbidden, tickets)
    ELSE Respond(StatusOK, [tickets EXCEPT ![id] = SkipVerification(tickets[id], now)])

\* POST /api/v1/tickets/{id}/setup-verification
SetupVerificationHandler(id, userID, roleID, vstatus, notes) ==
    IF ~Exists(id) THEN Respond(StatusNotFound, tickets)
    ELSE IF ~VerifiableStatus(tickets[id]) THEN Respond(StatusBadRequest, tickets)
    ELSE IF ~VerificationNotSetUp(tickets[id]) THEN Respond(StatusBadRequest, tickets)
    ELSE Respond(StatusOK, [tickets EXCEPT ![id] =
                    SetupVerification(tickets[id], vstatus, notes)])

\* POST /api/v1/tickets/{id}/reset-verification
ResetVerificationHandler(id, userID, roleID) ==
    IF ~Exists(id) THEN Respond(StatusNotFound, tickets)
    ELSE IF ResetBlocked(tickets[id]) THEN Respond(StatusBadRequest, tickets)
    ELSE IF ~CanReset(tickets[id], userID, roleID) THEN Respond(StatusForbidden, tickets)
    ELSE Respond(StatusOK, [tickets EXCEPT ![id] = ResetVerification(tickets[id])])

(* ------------------------------ state ---------------------------------- *)
Init ==
    /\ tickets = NoTickets
    /\ nextId = 1
    /\ now = 1
    /\ call = Idle
    /\ creating = NoneCreating

\* The database clock advances between requests.
Tick ==
    /\ now < MaxClock
    /\ now' = now + 1
    /\ UNCHANGED <<tickets, nextId, call, creating>>

createTicket ==
    \E u \in Users, r \in RoleIds, body \in CreateBodies :
        /\ nextId \in TicketIds
        /\ tickets' = ServeCreateTicket(u, r, body).tickets
        /\ nextId' = IF ServeCreateTicket(u, r, body).code = StatusCreated
                     THEN nextId + 1 ELSE nextId
        /\ UNCHANGED <<now, call, creating>>

updateTicket ==
    \E id \in TicketIds, u \in Users, r \in RoleIds, title \in TitleInputs :
        /\ tickets' = UpdateTicket(id, u, r, title).tickets
        /\ UNCHANGED <<nextId, now, call, creating>>

deleteTicket ==
    \E id \in TicketIds, u \in Users, r \in RoleIds :
        /\ tickets' = DeleteTicket(id, u, r).tickets
        /\ UNCHANGED <<nextId, now, call, creating>>

setStatus ==
    \E id \in TicketIds, u \in Users, r \in RoleIds, s \in StatusInputs,
       c \in CompletionInputs, a \in AssigneeInputs :
        /\ tickets' = UpdateTicketStatus(id, u, r, s, c, a).tickets
        /\ UNCHANGED <<nextId, now, call, creating>>

reassign ==
    \E id \in TicketIds, u \in Users, r \in RoleIds, a \in AssigneeInputs :
        /\ tickets' = ReassignTicketHandler(id, u, r, a).tickets
        /\ UNCHANGED <<nextId, now, call, creating>>

requestVerification ==
    \E id \in TicketIds, u \in Users, r \in RoleIds, n \in NotesInputs :
        /\ tickets' = RequestVerificationHandler(id, u, r, n).tickets
        /\ UNCHANGED <<nextId, now, call, creating>>

decide ==
    \E id \in TicketIds, u \in Users, r \in RoleIds, ok \in BOOLEAN, n \in NotesInputs :
        /\ tickets' = VerifyTicketHandler(id, u, r, ok, n).tickets
        /\ UNCHANGED <<nextId, now, call, creating>>

skip ==
    \E id \in TicketIds, u \in Users, r \in RoleIds :
        /\ tickets' = SkipVerificationHandler(id, u, r).tickets
        /\ UNCHANGED <<nextId, now, call, creating>>

setup ==
    \E id \in TicketIds, u \in Users, r \in RoleIds, v \in VerificationStatusInputs,
       n \in NotesInputs :
        /\ tickets' = SetupVerificationHandler(id, u, r, v, n).tickets
        /\ UNCHANGED <<nextId, now, call, creating>>

reset ==
    \E id \in TicketIds, u \in Users, r \in RoleIds :
        /\ tickets' = ResetVerificationHandler(id, u, r).tickets
        /\ UNCHANGED <<nextId, now, call, creating>>

Next ==
    \/ Tick
    \/ createTicket
    \/ updateTicket
    \/ deleteTicket
    \/ setStatus
    \/ reassign
    \/ requestVerification
    \/ decide
    \/ skip
    \/ setup
    \/ reset

Spec == Init /\ [][Next]_vars

(* ------------------- createTicket requests side by side ---------------- *)
\* Insert runs three statements without a transaction: SELECT MAX, SELECT
\* EXISTS, INSERT.  Each is one step of connection p.
InFlight == {p \in Procs : creating[p] # Idle}

\* The handler's checks, then the MAX query of GenerateTicketNum.
createMax(p) ==
    \E u \in Users, r \in RoleIds, body \in CreateBodies :
        /\ creating[p] = Idle
        /\ nextId + Cardinality(InFlight) <= MaxTickets
        /\ ServeCreateTicket(u, r, body).code = StatusCreated
        /\ creating' = [creating EXCEPT ![p] =
                           [op |-> "create", pc |-> "exists", num |-> GenerateTicketNum,
                            title |-> DecodeCreateInput(body).title, created_by |-> u]]
        /\ UNCHANGED <<tickets, nextId, now, call>>

\* The existence check: a number found in the table gives way to the timestamp.
createExists(p) ==
    /\ creating[p] # Idle /\ creating[p].pc = "exists"
    /\ \E ts \in TimestampInputs :
          creating' = [creating EXCEPT ![p] =
              [@ EXCEPT !.pc = "insert",
                        !.num = IF \E i \in DOMAIN tickets :
                                       tickets[i].ticket_num = creating[p].num
                                THEN ts ELSE @]]
    /\ UNCHANGED <<tickets, nextId, now, call>>

\* The INSERT: the sequence hands out the id whether or not the row is stored.
createInsert(p) ==
    /\ creating[p] # Idle /\ creating[p].pc = "insert"
    /\ tickets' = InsertRow(nextId,
                       [Insert(creating[p].title, creating[p].created_by)
                            EXCEPT !.ticket_num = creating[p].num])
    /\ nextId' = nextId + 1
    /\ creating' = [creating EXCEPT ![p] = Idle]
    /\ UNCHANGED <<now, call>>

\* DELETE /api/v1/tickets/{id} on any of the rows.
deleteAny ==
    \E id \in DOMAIN tickets, u \in Users, r \in RoleIds :
        /\ tickets' = DeleteTicket(id, u, r).tickets
        /\ UNCHANGED <<nextId, now, call, creating>>

CreateNext ==
    \/ \E p \in Procs : createMax(p)
    \/ \E p \in Procs : createExists(p)
    \/ \E p \in Procs : createInsert(p)
    \/ deleteAny

CreateSpec == Init /\ [][CreateNext]_vars

(* ---------------- a lifecycle request between read and write ----------- *)
\* VerifyTicket, ResetVerification and UpdateTicket read the ticket with
\* GetByID, check it, and write with a second statement; no transaction or
\* lock holds the two together.  The read step runs the handler's checks on
\* the table as it is and keeps what the write needs; any request may be
\* served before the write step runs.

\* decide: CanVerifyTicket, GetByID and the pending check.
decideRead ==
    \E id \in TicketIds, u \in Users, r \in RoleIds, ok \in BOOLEAN, n \in NotesInputs :
        /\ call = Idle
        /\ VerifyTicketHandler(id, u, r, ok, n).code = StatusOK
        /\ call' = [op |-> "decide", id |-> id, userID |-> u, approved |-> ok, notes |-> n]
        /\ UNCHANGED <<tickets, nextId, now, creating>>

\* decide: the UPDATE ... WHERE id = $5.
decideWrite ==
    /\ call.op = "decide"
    /\ tickets' = IF Exists(call.id)
                  THEN [tickets EXCEPT ![call.id] =
                           VerifyTicket(@, call.userID, call.approved, call.notes, now)]
                  ELSE tickets
    /\ call' = Idle
    /\ UNCHANGED <<nextId, now, creating>>

\* reset: GetByID, the closed check and the permission check.
resetRead ==
    \E id \in TicketIds, u \in Users, r \in RoleIds :
        /\ call = Idle
        /\ ResetVerificationHandler(id, u, r).code = StatusOK
        /\ call' = [op |-> "reset", id |-> id]
        /\ UNCHANGED <<tickets, nextId, now, creating>>

\* reset: the UPDATE ... WHERE id = $2.
resetWrite ==
    /\ call.op = "reset"
    /\ tickets' = IF Exists(call.id)
                  THEN [tickets EXCEPT ![call.id] = ResetVerification(@)]
                  ELSE tickets
    /\ call' = Idle
    /\ UNCHANGED <<nextId, now, creating>>

\* updateTicket: GetByID, the role switch, and the edit of the ticket read.
\* Of existingTicket the call keeps the columns Update writes.
updateRead ==
    \E id \in TicketIds, u \in Users, r \in RoleIds, title \in TitleInputs :
        /\ call = Idle
        /\ UpdateTicket(id, u, r, title).code = StatusOK
        /\ call' = [op |-> "update", id |-> id,
                    existingTicket |->
                        [title |-> IF title # "" THEN title ELSE tickets[id].title,
                         status |-> tickets[id].status,
                         completion |-> tickets[id].completion,
                         assigned_to |-> tickets[id].assigned_to]]
        /\ UNCHANGED <<tickets, nextId, now, creating>>

\* updateTicket: the whole-row UPDATE ... WHERE id = $10.
updateWrite ==
    /\ call.op = "update"
    /\ tickets' = IF Exists(call.id)
                  THEN [tickets EXCEPT ![call.id] = Update(@, call.existingTicket, now)]
                  ELSE tickets
    /\ call' = Idle
    /\ UNCHANGED <<nextId, now, creating>>

\* setStatus as a staff caller sends it while another request is under way:
\* any of the five statuses at 40 percent, with or without an assignee.
setStatusByStaff ==
    \E id \in TicketIds, u \in Users, s \in validStatuses, a \in {Null} \cup Users :
        /\ tickets' = UpdateTicketStatus(id, u, 3, s, 40, a).tickets
        /\ UNCHANGED <<nextId, now, call, creating>>

\* The requests of the races: creation, the requests that close or reopen a
\* ticket or move it into review, and the three two-statement requests.
RaceNext ==
    \/ createTicket
    \/ setStatusByStaff
    \/ reassign
    \/ requestVerification
    \/ decide
    \/ skip
    \/ decideRead
    \/ decideWrite
    \/ resetRead
    \/ resetWrite
    \/ updateRead
    \/ updateWrite

RaceSpec == Init /\ [][RaceNext]_vars

(* ------------------------------ claims --------------------------------- *)
Rows == DOMAIN tickets

\* The caller is the creator of the row, or holds the Admin or IT role.
CreatorOrPrivileged(t, userID, roleID) ==
    t.created_by = userID \/ roleID \in {AdminRole, ITRole}

\* C1 as stated: closed_at is non-null if and only if status is closed.
C1_ClosedAtIffClosed ==
    \A id \in Rows : (tickets[id].closed_at # Null) <=> (tickets[id].status = "closed")

\* C1 amended: a closed ticket always carries closed_at, and closed_at turns
\* non-null only in a step that leaves the ticket closed; a ticket moved out
\* of closed keeps its closed_at.
C1_ClosedImpliesClosedAt ==
    /\ [](\A id \in Rows : tickets[id].status = "closed" => tickets[id].closed_at # Null)
    /\ [][\A id \in Rows \cap DOMAIN tickets' :
            (tickets[id].closed_at = Null /\ tickets'[id].closed_at # Null)
                => tickets'[id].status = "closed"]_vars

C1_Witness ==
    \E id \in Rows : tickets[id].status = "closed" /\ tickets[id].closed_at = now

C1_ReopenedWitness ==
    \E id \in Rows : tickets[id].status = "in_progress" /\ tickets[id].closed_at # Null

\* C2: once closed_at is non-null no later step changes its value.
C2_ClosedAtNeverChanges ==
    [][\A id \in Rows \cap DOMAIN tickets' :
          tickets[id].closed_at # Null
              => tickets'[id].closed_at = tickets[id].closed_at]_vars

\* C3: on a pending ticket, whatever its status and completion, a permitted
\* decide answers 200 and leaves closed/100/verified with closed_at set when
\* approved, in_progress/50/rejected when not; verified_by is the caller and
\* verified_at is set in both cases.
C3_DecideOutcome ==
    \A id \in Rows, u \in Users, r \in RoleIds, n \in NotesInputs :
        (tickets[id].verification_status = "pending"
            /\ CreatorOrPrivileged(tickets[id], u, r))
        => LET yes == VerifyTicketHandler(id, u, r, TRUE, n)
               no == VerifyTicketHandler(id, u, r, FALSE, n)
           IN /\ yes.code = StatusOK
              /\ yes.tickets[id].status = "closed"
              /\ yes.tickets[id].completion = 100
              /\ yes.tickets[id].verification_status = "verified"
              /\ yes.tickets[id].closed_at # Null
              /\ yes.tickets[id].verified_by = u
              /\ yes.tickets[id].verified_at # Null
              /\ no.code = StatusOK
              /\ no.tickets[id].status = "in_progress"
              /\ no.tickets[id].completion = 50
              /\ no.tickets[id].verification_status = "rejected"
              /\ no.tickets[id].verified_by = u
              /\ no.tickets[id].verified_at # Null

\* A rejection has been recorded by a verifier who is not the creator.
C3_Witness ==
    \E id \in Rows :
        /\ tickets[id].verification_status = "rejected"
        /\ tickets[id].status = "in_progress"
        /\ tickets[id].completion = 50
        /\ tickets[id].verified_by \in Users \ {tickets[id].created_by}
        /\ tickets[id].verified_at = now

\* C4: on a ticket in_progress or resolved a permitted requestVerification
\* answers 200 and leaves pending, the notes of the request, resolved and 90.
C4_RequestVerificationOutcome ==
    \A id \in Rows, u \in Users, r \in RoleIds, n \in NotesInputs :
        (tickets[id].status \in {"in_progress", "resolved"}
            /\ CreatorOrPrivileged(tickets[id], u, r))
        => LET o == RequestVerificationHandler(id, u, r, n)
           IN /\ o.code = StatusOK
              /\ o.tickets[id].verification_status = "pending"
              /\ o.tickets[id].verification_notes = n
              /\ o.tickets[id].status = "resolved"
              /\ o.tickets[id].completion = 90

\* Scenario A: the creator's ticket, assigned to user 2, after the request.
C4_Witness ==
    \E id \in Rows :
        /\ tickets[id].created_by = 1
        /\ tickets[id].assigned_to = 2
        /\ tickets[id].status = "resolved"
        /\ tickets[id].completion = 90
        /\ tickets[id].verification_status = "pending"
        /\ tickets[id].verification_notes \in NotesInputs
        /\ tickets[id].closed_at = Null

\* The callers rule 2 of the authorizer lets through.
C5_Authorized(t, userID, roleID) ==
    \/ roleID = AdminRole
    \/ roleID = ITRole /\ (t.assigned_to = Null \/ t.assigned_to = userID)
    \/ roleID \notin {AdminRole, ITRole} /\ t.created_by = userID

\* C5: setStatus and reassign by a caller outside rule 2 are answered 403
\* and leave the ticket unchanged.
C5_StatusAndReassignGated ==
    \A id \in Rows, u \in Users, r \in RoleIds :
        ~C5_Authorized(tickets[id], u, r)
        => /\ \A s \in StatusInputs, c \in CompletionInputs, a \in AssigneeInputs :
                LET o == UpdateTicketStatus(id, u, r, s, c, a)
                IN o.code = StatusForbidden /\ o.tickets = tickets
           /\ \A a \in AssigneeInputs :
                LET o == ReassignTicketHandler(id, u, r, a)
                IN o.code = StatusForbidden /\ o.tickets = tickets

\* C6: skip by a caller whose role is neither Admin nor IT is answered 403
\* and leaves the ticket unchanged, whoever the caller is to the ticket.
C6_SkipDenied ==
    \A id \in Rows, u \in Users, r \in RoleIds \ {AdminRole, ITRole} :
        LET o == SkipVerificationHandler(id, u, r)
        IN o.code = StatusForbidden /\ o.tickets = tickets

\* One user is creator, assignee and verifier of an open ticket and is refused.
C6_Witness ==
    \E id \in Rows, u \in Users :
        /\ tickets[id].created_by = u
        /\ tickets[id].assigned_to = u
        /\ tickets[id].verified_by = u
        /\ tickets[id].status # "closed"
        /\ SkipVerificationHandler(id, u, 3).code = StatusForbidden

\* C7: reset on a closed ticket is answered 400 for every caller and changes
\* nothing.
C7_ResetClosedRefused ==
    \A id \in Rows, u \in Users, r \in RoleIds :
        tickets[id].status = "closed"
        => LET o == ResetVerificationHandler(id, u, r)
           IN o.code = StatusBadRequest /\ o.tickets = tickets

\* A closed, verified ticket whose verifier holds the Admin role is refused.
C7_Witness ==
    \E id \in Rows :
        /\ tickets[id].status = "closed"
        /\ tickets[id].verification_status = "verified"
        /\ tickets[id].verified_by # Null
        /\ ResetVerificationHandler(id, tickets[id].verified_by, AdminRole).code
              = StatusBadRequest

\* C8 as stated: requestVerification on an open, received or closed ticket
\* is answered with the invalid-state error (400) for every caller.
C8_InvalidStateForEveryCaller ==
    \A id \in Rows, u \in Users, r \in RoleIds, n \in NotesInputs :
        tickets[id].status \in {"open", "received", "closed"}
        => LET o == RequestVerificationHandler(id, u, r, n)
           IN o.code = StatusBadRequest /\ o.tickets = tickets

\* C8 amended: the request changes nothing for any caller; the creator and
\* Admin / IT callers get the invalid-state error (400), every other caller
\* is turned away first with 403.
C8_RejectedForEveryCaller ==
    \A id \in Rows, u \in Users, r \in RoleIds, n \in NotesInputs :
        tickets[id].status \in {"open", "received", "closed"}
        => LET o == RequestVerificationHandler(id, u, r, n)
           IN /\ o.tickets = tickets
              /\ o.code = IF CreatorOrPrivileged(tickets[id], u, r)
                          THEN StatusBadRequest ELSE StatusForbidden

\* A closed ticket on which both answers occur.
C8_Witness ==
    \E id \in Rows, n \in NotesInputs :
        /\ tickets[id].status = "closed"
        /\ RequestVerificationHandler(id, tickets[id].created_by, 4, n).code = StatusBadRequest
        /\ \E u \in Users :
              RequestVerificationHandler(id, u, 4, n).code = StatusForbidden

\* C9: decide on a ticket whose verification is not pending changes no field;
\* a caller who may decide gets the invalid-state error (400).
C9_DecideNeedsPending ==
    \A id \in Rows, u \in Users, r \in RoleIds, ok \in BOOLEAN, n \in NotesInputs :
        tickets[id].verification_status # "pending"
        => LET o == VerifyTicketHandler(id, u, r, ok, n)
           IN /\ o.tickets = tickets
              /\ o.code # StatusOK
              /\ CreatorOrPrivileged(tickets[id], u, r) => o.code = StatusBadRequest

\* A rejected ticket back in progress: a second decision is refused.
C9_Witness ==
    \E id \in Rows :
        /\ tickets[id].verification_status = "rejected"
        /\ tickets[id].status = "in_progress"
        /\ VerifyTicketHandler(id, tickets[id].created_by, 3, TRUE, "done").code
              = StatusBadRequest

\* C10: a step that changes verification_status to verified or rejected
\* starts from pending.
C10_DecidedOnlyFromPending ==
    [][\A id \in Rows \cap DOMAIN tickets' :
          (tickets'[id].verification_status \in {"verified", "rejected"}
              /\ tickets'[id].verification_status # tickets[id].verification_status)
          => tickets[id].verification_status = "pending"]_vars

\* C11: a step that changes verification_status to pending starts from a
\* ticket whose status is in_progress or resolved.
C11_PendingOnlyFromWorkStatus ==
    [][\A id \in Rows \cap DOMAIN tickets' :
          (tickets'[id].verification_status = "pending"
              /\ tickets[id].verification_status # "pending")
          => tickets[id].status \in {"in_progress", "resolved"}]_vars

\* C12: verification_status is one of the four values of the sub-machine.
C12_VerificationStatusLegal ==
    \A id \in Rows :
        tickets[id].verification_status
            \in {"not_required", "pending", "verified", "rejected"}

\* C13: a closed ticket has completion 100.
C13_ClosedIsComplete ==
    \A id \in Rows : tickets[id].status = "closed" => tickets[id].completion = 100

\* C14: requestVerification and decide pass authorization exactly for the
\* creator and for Admin / IT callers; every other caller is answered 403
\* and the ticket is left unchanged.
C14_RequestAndDecideGate ==
    \A id \in Rows, u \in Users, r \in RoleIds, n \in NotesInputs :
        LET q == RequestVerificationHandler(id, u, r, n)
            allowed == CreatorOrPrivileged(tickets[id], u, r)
        IN /\ (q.code # StatusForbidden) <=> allowed
           /\ ~allowed => q.tickets = tickets
           /\ (allowed /\ tickets[id].status \in {"in_progress", "resolved"})
                  => q.code = StatusOK
           /\ \A ok \in BOOLEAN :
                 LET v == VerifyTicketHandler(id, u, r, ok, n)
                 IN /\ (v.code # StatusForbidden) <=> allowed
                    /\ ~allowed => v.tickets = tickets
                    /\ (allowed /\ tickets[id].verification_status = "pending")
                           => v.code = StatusOK

\* A pending, resolved ticket assigned to a user who is not its creator: the
\* creator with the agent role passes both gates, the assignee does not.
C14_Witness ==
    \E id \in Rows, n \in NotesInputs :
        /\ tickets[id].verification_status = "pending"
        /\ tickets[id].status = "resolved"
        /\ tickets[id].assigned_to \in Users \ {tickets[id].created_by}
        /\ VerifyTicketHandler(id, tickets[id].created_by, 4, TRUE, n).code = StatusOK
        /\ RequestVerificationHandler(id, tickets[id].created_by, 4, n).code = StatusOK
        /\ VerifyTicketHandler(id, tickets[id].assigned_to, 4, TRUE, n).code
              = StatusForbidden
        /\ RequestVerificationHandler(id, tickets[id].assigned_to, 4, n).code
              = StatusForbidden

\* C15: on a ticket that is not closed, reset is permitted exactly for Admin /
\* IT callers, the creator, and the caller recorded as verified_by; a null
\* verified_by permits nobody, and a denied reset leaves the ticket unchanged.
C15_ResetGate ==
    \A id \in Rows, u \in Users, r \in RoleIds :
        tickets[id].status # "closed"
        => LET o == ResetVerificationHandler(id, u, r)
               t == tickets[id]
               allowed == \/ r \in {AdminRole, ITRole}
                          \/ t.created_by = u
                          \/ (t.verified_by # Null /\ t.verified_by = u)
           IN /\ allowed => o.code = StatusOK
              /\ ~allowed => (o.code = StatusForbidden /\ o.tickets = tickets)

\* A rejected ticket, not closed, whose verifier is not its creator: the
\* verifier resets it with the staff role.
C15_Witness ==
    \E id \in Rows :
        /\ tickets[id].status = "in_progress"
        /\ tickets[id].verification_status = "rejected"
        /\ tickets[id].verified_by \in Users \ {tickets[id].created_by}
        /\ ResetVerificationHandler(id, tickets[id].verified_by, 3).code = StatusOK

\* C16: a caller who is not the creator, not the recorded verifier and neither
\* Admin nor IT changes no field through requestVerification, decide, skip,
\* setup or reset.
C16_OutsiderChangesNothing ==
    \A id \in Rows, u \in Users, r \in RoleIds \ {AdminRole, ITRole}, n \in NotesInputs :
        (tickets[id].created_by # u /\ tickets[id].verified_by # u)
        => /\ RequestVerificationHandler(id, u, r, n).tickets = tickets
           /\ \A ok \in BOOLEAN : VerifyTicketHandler(id, u, r, ok, n).tickets = tickets
           /\ SkipVerificationHandler(id, u, r).tickets = tickets
           /\ \A v \in VerificationStatusInputs :
                 SetupVerificationHandler(id, u, r, v, n).tickets = tickets
           /\ ResetVerificationHandler(id, u, r).tickets = tickets

\* C17: setup answers 200 exactly when verification_status is not_required
\* and status is in_progress or resolved, and then changes only
\* verification_status and verification_notes; otherwise it answers 400 and
\* changes nothing.
C17_SetupOutcome ==
    \A id \in Rows, u \in Users, r \in RoleIds, v \in VerificationStatusInputs,
       n \in NotesInputs :
        LET o == SetupVerificationHandler(id, u, r, v, n)
            t == tickets[id]
        IN IF t.verification_status = "not_required"
                  /\ t.status \in {"in_progress", "resolved"}
           THEN /\ o.code = StatusOK
                /\ o.tickets = [tickets EXCEPT ![id] =
                                   [t EXCEPT !.verification_status = v,
                                             !.verification_notes = n]]
           ELSE o.code = StatusBadRequest /\ o.tickets = tickets

\* A ticket set up as pending: in_progress at 40, notes stored, nobody recorded
\* as verifier; a second setup is refused.
C17_Witness ==
    \E id \in Rows :
        /\ tickets[id].verification_status = "pending"
        /\ tickets[id].status = "in_progress"
        /\ tickets[id].completion = 40
        /\ tickets[id].verification_notes \in NotesInputs
        /\ tickets[id].verified_by = Null
        /\ \A n \in NotesInputs :
              SetupVerificationHandler(id, tickets[id].created_by, AdminRole, "pending", n).code
                  = StatusBadRequest

\* The two ways into review from ticket t, and the approval that follows
\* each: st is the row after setup(pending, n), rq the row after
\* requestVerification(n); u with role r is the caller of every step.
C18_AfterSetup(id, u, r, n) ==
    SetupVerificationHandler(id, u, r, "pending", n).tickets[id]

C18_AfterRequest(id, u, r, n) ==
    RequestVerificationHandler(id, u, r, n).tickets[id]

\* Both first steps answer 200, both intermediate rows pass the checks of
\* decide for the same verifier, and the two approvals write the same row:
\* verified, closed, 100, verified_by the verifier, closed_at set.
C18_Converge(id, u, r, n) ==
    LET st == C18_AfterSetup(id, u, r, n)
        rq == C18_AfterRequest(id, u, r, n)
        fs == VerifyTicket(st, u, TRUE, n, now)
        fr == VerifyTicket(rq, u, TRUE, n, now)
    IN /\ SetupVerificationHandler(id, u, r, "pending", n).code = StatusOK
       /\ RequestVerificationHandler(id, u, r, n).code = StatusOK
       /\ VerificationPending(st) /\ VerificationPending(rq)
       /\ CanVerifyTicket(st, u, r) /\ CanVerifyTicket(rq, u, r)
       /\ fs = fr
       /\ fs.status = "closed" /\ fs.completion = ClosedCompletion
       /\ fs.verification_status = "verified" /\ fs.verified_by = u
       /\ fs.closed_at # Null

C18_Applies(id, u, r) ==
    /\ tickets[id].status \in {"in_progress", "resolved"}
    /\ tickets[id].verification_status = "not_required"
    /\ CreatorOrPrivileged(tickets[id], u, r)

\* C18 as stated: from in_progress or resolved with not_required, setup(pending)
\* then an approval and requestVerification then an approval end in the same
\* row, and the rows in between differ in completion only.
C18_DifferOnlyInCompletion ==
    \A id \in Rows, u \in Users, r \in RoleIds, n \in NotesInputs :
        C18_Applies(id, u, r)
        => /\ C18_Converge(id, u, r, n)
           /\ C18_AfterSetup(id, u, r, n)
                 = [C18_AfterRequest(id, u, r, n) EXCEPT
                       !.completion = tickets[id].completion]

\* C18 amended: the two paths end in the same row; in between the setup path
\* keeps the ticket's status and completion where the request path has
\* resolved and 90, and the rows differ in nothing else.
C18_DifferInStatusAndCompletion ==
    \A id \in Rows, u \in Users, r \in RoleIds, n \in NotesInputs :
        C18_Applies(id, u, r)
        => /\ C18_Converge(id, u, r, n)
           /\ C18_AfterRequest(id, u, r, n).status = "resolved"
           /\ C18_AfterRequest(id, u, r, n).completion = PendingCompletion
           /\ C18_AfterSetup(id, u, r, n)
                 = [C18_AfterRequest(id, u, r, n) EXCEPT
                       !.completion = tickets[id].completion,
                       !.status = tickets[id].status]

\* A ticket in_progress at 40 that was never in review and has been closed
\* before: both paths are open to its creator, and the rows in between differ
\* in status as well as completion.
C18_Witness ==
    \E id \in Rows, n \in NotesInputs :
        /\ tickets[id].status = "in_progress"
        /\ tickets[id].completion = 40
        /\ tickets[id].verification_status = "not_required"
        /\ tickets[id].closed_at # Null /\ tickets[id].closed_at < now
        /\ C18_Converge(id, tickets[id].created_by, 4, n)
        /\ C18_AfterSetup(id, tickets[id].created_by, 4, n).status = "in_progress"
        /\ C18_AfterRequest(id, tickets[id].created_by, 4, n).status = "resolved"

\* C19: on a ticket that is not closed and whose verification_status is
\* pending, verified or rejected, a permitted reset answers 200 and leaves
\* pending, verified_by and verified_at null and the reset marker as notes;
\* every other field, status, completion and assigned_to among them, is kept.
C19_ResetOutcome ==
    \A id \in Rows, u \in Users, r \in RoleIds :
        (tickets[id].status # "closed"
            /\ tickets[id].verification_status \in {"pending", "verified", "rejected"}
            /\ CanReset(tickets[id], u, r))
        => LET o == ResetVerificationHandler(id, u, r)
               t == o.tickets[id]
           IN /\ o.code = StatusOK
              /\ t.verification_status = "pending"
              /\ t.verified_by = Null /\ t.verified_at = Null
              /\ t.verification_notes = ResetMarker
              /\ t.status = tickets[id].status
              /\ t.completion = tickets[id].completion
              /\ t.assigned_to = tickets[id].assigned_to
              /\ o.tickets = [tickets EXCEPT ![id] =
                                 [tickets[id] EXCEPT !.verification_status = "pending",
                                                     !.verified_by = Null,
                                                     !.verified_at = Null,
                                                     !.verification_notes = ResetMarker]]

\* A ticket after the reset of a rejection: pending under the marker, no
\* verifier, still in_progress at 50 with its assignee.
C19_Witness ==
    \E id \in Rows :
        /\ tickets[id].verification_status = "pending"
        /\ tickets[id].verification_notes = ResetMarker
        /\ tickets[id].verified_by = Null /\ tickets[id].verified_at = Null
        /\ tickets[id].status = "in_progress"
        /\ tickets[id].completion = RejectedCompletion
        /\ tickets[id].assigned_to \in Users

\* C20: on every existing ticket, whatever its status and verification_status,
\* skip by an Admin or IT caller answers 200 and leaves not_required, closed,
\* 100 and a non-null closed_at.
C20_SkipOutcome ==
    \A id \in Rows, u \in Users, r \in {AdminRole, ITRole} :
        LET o == SkipVerificationHandler(id, u, r)
            t == o.tickets[id]
        IN /\ o.code = StatusOK
           /\ t.verification_status = "not_required"
           /\ t.status = "closed"
           /\ t.completion = ClosedCompletion
           /\ t.closed_at # Null

\* A ticket skipped out of a review that had been reset: closed at 100 now,
\* not_required, the marker still in its notes.
C20_Witness ==
    \E id \in Rows :
        /\ tickets[id].verification_status = "not_required"
        /\ tickets[id].status = "closed"
        /\ tickets[id].completion = ClosedCompletion
        /\ tickets[id].closed_at = now
        /\ tickets[id].verification_notes = ResetMarker

\* Ticket ids no row carries.
UnknownIds == (TicketIds \cup {nextId}) \ Rows

\* setStatus by a caller holding tickets:update: a status outside the five,
\* a completion outside 0..100 or an assignee who is no user is answered 400
\* and changes nothing; an unknown id is answered 404 and changes nothing.
C21_SetStatusRejects ==
    \A u \in Users, r \in RoleIds, s \in StatusInputs, c \in CompletionInputs,
       a \in AssigneeInputs :
        RequirePermission(r, "tickets:update")
        => /\ \A id \in Rows :
                 (s \notin validStatuses \/ c < MinCompletion \/ c > MaxCompletion
                     \/ (a # Null /\ a \notin Users))
                 => LET o == UpdateTicketStatus(id, u, r, s, c, a)
                    IN o.code = StatusBadRequest /\ o.tickets = tickets
           /\ \A id \in UnknownIds :
                 LET o == UpdateTicketStatus(id, u, r, s, c, a)
                 IN o.code = StatusNotFound /\ o.tickets = tickets

\* C21 as stated: invalid input to setStatus is rejected without change, and
\* setStatus and reassign on an unknown ticket id answer not-found (404)
\* without change.
C21_UnknownIdIsNotFound ==
    /\ C21_SetStatusRejects
    /\ \A id \in UnknownIds, u \in Users, r \in RoleIds, a \in AssigneeInputs :
          RequirePermission(r, "tickets:assign")
          => LET o == ReassignTicketHandler(id, u, r, a)
             IN o.code = StatusNotFound /\ o.tickets = tickets

\* C21 amended: reassign on an unknown ticket id answers not-found when the
\* assignee of the request is an existing user; when it is not, the assignee
\* check comes first and the answer is 400.  Nothing changes either way.
C21_UnknownIdOrAssignee ==
    /\ C21_SetStatusRejects
    /\ \A id \in UnknownIds, u \in Users, r \in RoleIds, a \in AssigneeInputs :
          RequirePermission(r, "tickets:assign")
          => LET o == ReassignTicketHandler(id, u, r, a)
             IN /\ o.code = IF a \in Users THEN StatusNotFound ELSE StatusBadRequest
                /\ o.tickets = tickets

\* An assigned ticket in progress on which the three bad inputs are turned
\* away, next to an id nobody holds.
C21_Witness ==
    \E id \in Rows :
        /\ tickets[id].status = "in_progress"
        /\ tickets[id].assigned_to \in Users
        /\ UpdateTicketStatus(id, 1, 3, "Investigating", 40, Null).code = StatusBadRequest
        /\ UpdateTicketStatus(id, 1, 3, "closed", 101, Null).code = StatusBadRequest
        /\ UpdateTicketStatus(id, 1, 3, "closed", 100, GhostUser).code = StatusBadRequest
        /\ UpdateTicketStatus(nextId, 1, 3, "closed", 100, Null).code = StatusNotFound
        /\ ReassignTicketHandler(nextId, 1, AdminRole, 1).code = StatusNotFound
        /\ ReassignTicketHandler(nextId, 1, AdminRole, GhostUser).code = StatusBadRequest

\* C22: whatever the body of the request carries, createTicket by a caller
\* holding tickets:create with a title answers 201 and stores a row with
\* status open, completion 0, verification_status not_required, closed_at,
\* assigned_to and verified_by null and created_by the caller; the other rows
\* stay as they are.
C22_CreatedTicketIsFresh ==
    \A u \in Users, r \in RoleIds, body \in CreateBodies :
        LET o == ServeCreateTicket(u, r, body)
        IN IF RequirePermission(r, "tickets:create") /\ body.title # ""
           THEN /\ o.code = StatusCreated
                /\ DOMAIN o.tickets = Rows \cup {nextId}
                /\ \A id \in Rows \ {nextId} : o.tickets[id] = tickets[id]
                /\ o.tickets[nextId].status = "open"
                /\ o.tickets[nextId].completion = 0
                /\ o.tickets[nextId].verification_status = "not_required"
                /\ o.tickets[nextId].closed_at = Null
                /\ o.tickets[nextId].assigned_to = Null
                /\ o.tickets[nextId].verified_by = Null
                /\ o.tickets[nextId].created_by = u
                /\ o.tickets[nextId].title = body.title
           ELSE o.code # StatusCreated /\ o.tickets = tickets

\* The row user 2 has just created, although a body naming another state
\* and another creator would have been accepted as well.
C22_Witness ==
    \E id \in Rows :
        /\ tickets[id] = [ticket_num |-> 1, title |-> "printer", status |-> "open",
                          completion |-> 0, created_by |-> 2, assigned_to |-> Null,
                          verification_status |-> "not_required",
                          verification_notes |-> "", verified_by |-> Null,
                          verified_at |-> Null, closed_at |-> Null]
        /\ \E body \in CreateBodies :
              /\ body.status = "closed" /\ body.completion = 100
              /\ body.assigned_to = 1 /\ body.created_by = 2
              /\ body.verification_status = "verified"
              /\ ServeCreateTicket(1, AdminRole, body).code = StatusCreated

\* C23: setStatus, reassign, updateTicket, requestVerification, skip and
\* setup leave verified_by as it is; decide leaves it as it is or sets it to
\* the deciding user, never to null; reset leaves it as it is or sets it to
\* null; no operation changes created_by of a row it keeps.
C23_VerifierFrame ==
    \A id \in Rows, u \in Users, r \in RoleIds :
        LET vb == tickets[id].verified_by
            Keeps(o) == /\ id \in DOMAIN o.tickets
                        /\ o.tickets[id].verified_by = vb
                        /\ o.tickets[id].created_by = tickets[id].created_by
        IN /\ \A s \in StatusInputs, c \in CompletionInputs, a \in AssigneeInputs :
                 Keeps(UpdateTicketStatus(id, u, r, s, c, a))
           /\ \A a \in AssigneeInputs : Keeps(ReassignTicketHandler(id, u, r, a))
           /\ \A title \in TitleInputs : Keeps(UpdateTicket(id, u, r, title))
           /\ \A n \in NotesInputs : Keeps(RequestVerificationHandler(id, u, r, n))
           /\ Keeps(SkipVerificationHandler(id, u, r))
           /\ \A v \in VerificationStatusInputs, n \in NotesInputs :
                 Keeps(SetupVerificationHandler(id, u, r, v, n))
           /\ \A ok \in BOOLEAN, n \in NotesInputs :
                 LET o == VerifyTicketHandler(id, u, r, ok, n)
                 IN /\ o.tickets[id].verified_by \in {vb, u}
                    /\ o.code = StatusOK => o.tickets[id].verified_by = u
                    /\ o.tickets[id].created_by = tickets[id].created_by
           /\ LET o == ResetVerificationHandler(id, u, r)
              IN /\ o.tickets[id].verified_by \in {vb, Null}
                 /\ o.tickets[id].created_by = tickets[id].created_by
           /\ \A body \in CreateBodies : Keeps(ServeCreateTicket(u, r, body))
           /\ LET o == DeleteTicket(id, u, r)
              IN id \in DOMAIN o.tickets => Keeps(o)

\* A ticket decided by somebody who is not its creator, reviewed again and
\* then closed by hand: verified_by and created_by are still in place.
C23_Witness ==
    \E id \in Rows :
        /\ tickets[id].created_by = 1
        /\ tickets[id].verified_by = 2
        /\ tickets[id].verification_status = "pending"
        /\ tickets[id].status = "closed"
        /\ tickets[id].completion = 40

\* C25: a setStatus that is answered 200 leaves status, completion and
\* assigned_to at exactly the values of the request; a request without
\* assignee leaves assigned_to null, whoever was assigned before.
C25_SetStatusStoresRequest ==
    \A id \in Rows, u \in Users, r \in RoleIds, s \in StatusInputs,
       c \in CompletionInputs, a \in AssigneeInputs :
        LET o == UpdateTicketStatus(id, u, r, s, c, a)
        IN /\ o.code = StatusOK
                 => /\ o.tickets[id].status = s
                    /\ o.tickets[id].completion = c
                    /\ o.tickets[id].assigned_to = a
           /\ (RequirePermission(r, "tickets:update") /\ s \in validStatuses
                  /\ c \in MinCompletion..MaxCompletion /\ a \in Users \cup {Null})
                 => o.code = StatusOK

\* An assigned ticket on which a setStatus without assignee is accepted and
\* leaves nobody assigned.
C25_Witness ==
    \E id \in Rows :
        /\ tickets[id].assigned_to = 2
        /\ tickets[id].status = "in_progress"
        /\ LET o == UpdateTicketStatus(id, 1, 3, "resolved", 40, Null)
           IN /\ o.code = StatusOK
              /\ o.tickets[id].assigned_to = Null
              /\ o.tickets[id].status = "resolved"

\* C26: every ticket ListTickets returns to a caller with role 3, 4 or 5 was
\* created by the caller, whatever the query carries; an Admin caller whose
\* query sets no filter is returned every ticket.
C26_ListOnlyOwn ==
    \A u \in Users, q \in ListQueries :
        /\ \A r \in {3, 4, 5} :
              \A id \in ListTickets(u, r, q).list : tickets[id].created_by = u
        /\ (q.status = "" /\ q.assigned_to = Null /\ q.created_by = Null)
              => ListTickets(u, AdminRole, q).list = Rows

\* C29: a ticket whose verification_status is pending has verified_by and
\* verified_at null.
C29_PendingHasNoVerifier ==
    \A id \in Rows :
        tickets[id].verification_status = "pending"
        => tickets[id].verified_by = Null /\ tickets[id].verified_at = Null

\* C24: under every interleaving of createTicket requests no two rows hold
\* the same ticket number; the number a request generates is the largest
\* one in the table plus one (1 for an empty table), a number the existence
\* check finds in the table is replaced, and a row is stored only under a
\* number no row holds.
C24_TicketNumUnique ==
    /\ [](\A i, j \in Rows : tickets[i].ticket_num = tickets[j].ticket_num => i = j)
    /\ [][\A p \in Procs :
            /\ (creating[p] = Idle /\ creating'[p] # Idle)
                  => creating'[p].num
                        = IF Rows = {} THEN 1
                          ELSE 1 + MaxNum({tickets[i].ticket_num : i \in Rows})
            /\ (creating[p] # Idle /\ creating'[p] # Idle
                    /\ creating[p].pc = "exists" /\ creating'[p].pc = "insert"
                    /\ \E i \in Rows : tickets[i].ticket_num = creating[p].num)
                  => creating'[p].num \in TimestampInputs
            /\ (creating[p] # Idle /\ creating'[p] = Idle /\ tickets' # tickets)
                  => /\ \A i \in Rows : tickets[i].ticket_num # creating[p].num
                     /\ tickets'[nextId].ticket_num = creating[p].num]_vars

\* Two requests generated number 1 side by side; one stored it, the other
\* found it taken, took the timestamp 3 and stored that.
C24_Witness ==
    /\ Cardinality(Rows) = 2
    /\ {tickets[i].ticket_num : i \in Rows} = {1, 3}
    /\ creating = NoneCreating

\* C27: the write of a decide that has read the ticket and passed the
\* pending check is applied only to a ticket that is still pending, so of
\* two decides under way together at most one changes the ticket.
C27_DecideWritesOnlyPending ==
    [][(call.op = "decide" /\ call' = Idle /\ Exists(call.id))
          => tickets[call.id].verification_status = "pending"]_vars

\* C28: the write of a reset that has read the ticket and passed the closed
\* check is not applied to a ticket that has been closed in the meantime: no
\* step of it leaves a closed ticket pending.
C28_ResetWritesOnlyOpen ==
    [][(call.op = "reset" /\ call' = Idle /\ Exists(call.id))
          => /\ tickets[call.id].status # "closed"
             /\ ~(tickets'[call.id].status = "closed"
                    /\ tickets'[call.id].verification_status = "pending")]_vars

\* C30: the write of an updateTicket leaves status, completion, assigned_to
\* and closed_at of the row as they are at the time of the write, whatever
\* was served since the ticket was read.
C30_UpdateKeepsLifecycle ==
    [][(call.op = "update" /\ call' = Idle /\ Exists(call.id))
          => /\ tickets'[call.id].status = tickets[call.id].status
             /\ tickets'[call.id].completion = tickets[call.id].completion
             /\ tickets'[call.id].assigned_to = tickets[call.id].assigned_to
             /\ tickets'[call.id].closed_at = tickets[call.id].closed_at]_vars

====
